---- MODULE Spec2Model ----
(***************************************************************************)
(* Quotation-to-booking state machine of the SearchGear backend: the quote *)
(* controller, the booking controller, the Booking and QuoteRequest        *)
(* schemas and the e-mail service.  Every handler is a sequence of steps,  *)
(* one per database or transport operation it awaits; the stores are the   *)
(* three collections (quotes, bookings, quotation history).                *)
(***************************************************************************)
EXTENDS Integers, Sequences, FiniteSets, TLC

VARIABLES quotes, bookings, history, nextQuoteId, nextBookingId, now, calls

vars == <<quotes, bookings, history, nextQuoteId, nextBookingId, now, calls>>

----------------------------------------------------------------------------
(* Bounds *)

MaxQuotes == 1
MaxBookings == 2
MaxHistory == 2
MaxNow == 2
DayLen == 2
NumProcs == 2
RaceHistory == 4

Procs == 1..NumProcs
SeqProcs == {1}

----------------------------------------------------------------------------
(* Values *)

UNDEF == "undefined"
None == <<>>
Some(x) == <<x>>

Admin == [id |-> "admin", role |-> "admin"]
Customers == {[id |-> "u1", role |-> "customer"], [id |-> "u2", role |-> "customer"]}
Actors == Customers \cup {Admin}

QuoteStatuses == {"pending", "quoted", "approved", "rejected"}
BusTypes == {"49-seater", "60-seater"}
BookingStatuses == {"confirmed", "in-progress", "completed", "cancelled"}
PaymentStatuses == {"pending", "partial", "paid", "refunded"}
BookingTypes == {"quotation", "confirmed", "paid"}
PaymentMethods == {"cash", "bank-transfer", "credit-card", "gcash", "paymaya"}

NoDoc == [exists |-> FALSE]
NoResp == [code |-> 0, success |-> FALSE, message |-> "", emailSent |-> UNDEF, warning |-> FALSE]
NoEmail == [threw |-> FALSE, success |-> FALSE, messageId |-> UNDEF]
NoBody == [none |-> TRUE]

Idle == [op |-> "idle", pc |-> "idle", id |-> 0, actor |-> Admin, body |-> NoBody,
         orig |-> NoDoc, doc |-> NoDoc, prev |-> NoDoc, transport |-> "none",
         emailResult |-> NoEmail, resp |-> NoResp, h0 |-> 0]

Db == [quotes |-> quotes, bookings |-> bookings, history |-> history]

Response(code, success, message) ==
  [code |-> code, success |-> success, message |-> message, emailSent |-> UNDEF, warning |-> FALSE]

\* A request can be taken up by a caller that has no request in flight.
Free(p) == calls[p].pc \in {"idle", "done"}

Start(p, op, id, actor, body) ==
  [Idle EXCEPT !.op = op, !.id = id, !.actor = actor, !.body = body, !.h0 = Len(history)]

\* The response is sent; the handler's locals other than the document it returns are dropped.
Finish(c, resp) == [c EXCEPT !.pc = "done", !.resp = resp, !.orig = NoDoc, !.prev = NoDoc]

----------------------------------------------------------------------------
(* Clock *)

today(t) == (t \div DayLen) * DayLen

----------------------------------------------------------------------------
(* QuoteRequest schema *)

passengersValidator(busType, value) ==
  IF busType = "49-seater" /\ value > 49 THEN FALSE
  ELSE IF busType = "60-seater" /\ value > 60 THEN FALSE
  ELSE TRUE

departureDateValidator(value, t) == value >= today(t)

\* Validation of a QuoteRequest document on create and on every save.
QuoteRequestValid(q, t) ==
  /\ q.pickupLocation # UNDEF
  /\ q.dropoffLocation # UNDEF
  /\ q.numberOfDays >= 1
  /\ q.busType \in BusTypes
  /\ q.numberOfPassengers >= 1
  /\ q.numberOfPassengers <= 60
  /\ passengersValidator(q.busType, q.numberOfPassengers)
  /\ departureDateValidator(q.departureDate, t)
  /\ q.status \in QuoteStatuses
  /\ (q.estimatedPrice # None => q.estimatedPrice[1] >= 0)

NewQuoteRequest(user, body) ==
  [user |-> user, pickupLocation |-> body.pickupLocation,
   dropoffLocation |-> body.dropoffLocation, numberOfDays |-> body.numberOfDays,
   busType |-> body.busType, numberOfPassengers |-> body.numberOfPassengers,
   departureDate |-> body.departureDate, status |-> "pending",
   estimatedPrice |-> None, adminNotes |-> UNDEF]

QuoteFields == {"status", "estimatedPrice", "adminNotes"}

\* Seeded fault: a path is written only when nobody changed it since it was loaded.
savePaths_unlessChanged(stored, orig, doc, fields) ==
  [f \in DOMAIN stored |->
     IF f \in fields /\ doc[f] # orig[f] /\ stored[f] = orig[f] THEN doc[f] ELSE stored[f]]

\* document.save(): the paths whose in-memory value differs from the loaded one are written.
savePaths(stored, orig, doc, fields) ==
  [f \in DOMAIN stored |-> IF f \in fields /\ doc[f] # orig[f] THEN doc[f] ELSE stored[f]]

isModified(orig, doc, fields) == \E f \in fields : doc[f] # orig[f]

----------------------------------------------------------------------------
(* Quotation history *)

\* QuotationHistory.createEntry: one insert into the audit collection.
createEntry(h, entry) == Append(h, entry)

HistoryEntry(quoteId, userId, action, previousState, newState, emailStatus, emailMessageId) ==
  [quoteId |-> quoteId, userId |-> userId, action |-> action,
   previousState |-> previousState, newState |-> newState,
   emailStatus |-> emailStatus, emailMessageId |-> emailMessageId]

stateOf(q) == [exists |-> TRUE, status |-> q.status, estimatedPrice |-> q.estimatedPrice,
               adminNotes |-> q.adminNotes]

----------------------------------------------------------------------------
(* E-mail service *)

\* sendQuotationEmail: the transport's outcome decides between the result and the rethrown error.
sendQuotationEmail(outcome) ==
  IF outcome = "delivered"
  THEN [threw |-> FALSE, success |-> TRUE, messageId |-> "msg"]
  ELSE [threw |-> TRUE, success |-> FALSE, messageId |-> UNDEF]

----------------------------------------------------------------------------
(* Quote controller *)

\* A request body of createQuote; a departureDate of -1 stands for a missing one.
CreateQuoteBody(pickup, dropoff, days, bus, passengers, departure) ==
  [pickupLocation |-> pickup, dropoffLocation |-> dropoff, numberOfDays |-> days,
   busType |-> bus, numberOfPassengers |-> passengers, departureDate |-> departure]

missingRequired(body) ==
  \/ body.pickupLocation = UNDEF
  \/ body.dropoffLocation = UNDEF
  \/ body.numberOfDays = 0
  \/ body.busType = UNDEF
  \/ body.numberOfPassengers = 0
  \/ body.departureDate = -1

\* Seeded fault: every bus is taken to seat 60.
maxCapacity_alwaysSixty(busType) == 60

maxCapacity(busType) == IF busType = "49-seater" THEN 49 ELSE 60

\* Seeded fault: the capacity is checked neither by the controller nor by the schema.
createQuoteOutcome_capacityUnchecked(body, t) ==
  IF missingRequired(body) THEN "missing"
  ELSE IF body.departureDate < today(t) THEN "past"
  ELSE "created"

\* Seeded fault: the departure is compared with the current instant, not with today's midnight.
createQuoteOutcome_strictlyAfterNow(body, t) ==
  IF missingRequired(body) THEN "missing"
  ELSE IF body.numberOfPassengers > maxCapacity(body.busType) THEN "capacity"
  ELSE IF body.departureDate < t THEN "past"
  ELSE IF ~QuoteRequestValid(NewQuoteRequest("u", body), t) THEN "invalid"
  ELSE "created"

createQuoteOutcome(body, t) ==
  IF missingRequired(body) THEN "missing"
  ELSE IF body.numberOfPassengers > maxCapacity(body.busType) THEN "capacity"
  ELSE IF body.departureDate < today(t) THEN "past"
  ELSE IF ~QuoteRequestValid(NewQuoteRequest("u", body), t) THEN "invalid"
  ELSE "created"

createQuote(p, actor, body) ==
  /\ Free(p)
  /\ LET c == Start(p, "createQuote", 0, actor, body)
         o == createQuoteOutcome(body, now)
     IN IF o = "created"
        THEN /\ nextQuoteId <= MaxQuotes
             /\ quotes' = quotes @@ (nextQuoteId :> NewQuoteRequest(actor.id, body))
             /\ nextQuoteId' = nextQuoteId + 1
             /\ calls' = [calls EXCEPT ![p] =
                  Finish([c EXCEPT !.id = nextQuoteId], Response(201, TRUE, "created"))]
        ELSE /\ calls' = [calls EXCEPT ![p] =
                  Finish(c, Response(IF o = "invalid" THEN 500 ELSE 400, FALSE, o))]
             /\ UNCHANGED <<quotes, nextQuoteId>>
  /\ UNCHANGED <<bookings, history, nextBookingId, now>>

\* getQuoteById: one read, then the ownership check.
\* Seeded fault: the role is not consulted, and neither is the owner.
notAuthorized_nobodyRefused(quote, actor) == quote.user # actor.id /\ actor.role \notin {"admin", "customer"}

notAuthorized(quote, actor) == quote.user # actor.id /\ actor.role # "admin"

getQuoteById(p, actor, id) ==
  /\ Free(p)
  /\ LET c == Start(p, "getQuoteById", id, actor, NoBody)
     IN calls' = [calls EXCEPT ![p] =
          IF id \notin DOMAIN quotes THEN Finish(c, Response(404, FALSE, "not found"))
          ELSE IF notAuthorized(quotes[id], actor) THEN Finish(c, Response(403, FALSE, "not authorized"))
          ELSE Finish([c EXCEPT !.doc = quotes[id]], Response(200, TRUE, "ok"))]
  /\ UNCHANGED <<quotes, bookings, history, nextQuoteId, nextBookingId, now>>

\* updateQuote: find, assign the supplied fields, save.
applyUpdate(quote, body) ==
  [quote EXCEPT
     !.status = IF body.status # UNDEF /\ body.status # "" THEN body.status ELSE @,
     !.estimatedPrice = IF body.estimatedPrice # None THEN body.estimatedPrice ELSE @,
     !.adminNotes = IF body.adminNotes # UNDEF THEN body.adminNotes ELSE @]

updateQuote(p, actor, id, body) ==
  /\ Free(p)
  /\ LET c == Start(p, "updateQuote", id, actor, body)
     IN calls' = [calls EXCEPT ![p] =
          IF id \notin DOMAIN quotes THEN Finish(c, Response(404, FALSE, "not found"))
          ELSE [c EXCEPT !.pc = "save", !.orig = quotes[id], !.doc = applyUpdate(quotes[id], body)]]
  /\ UNCHANGED <<quotes, bookings, history, nextQuoteId, nextBookingId, now>>

\* quote.save(): validation of the in-memory document, then the write of its modified paths.
saveQuote(c, t, qs) ==
  IF ~QuoteRequestValid(c.doc, t) THEN [ok |-> FALSE, quotes |-> qs]
  ELSE IF ~isModified(c.orig, c.doc, QuoteFields) THEN [ok |-> TRUE, quotes |-> qs]
  ELSE IF c.id \notin DOMAIN qs THEN [ok |-> FALSE, quotes |-> qs]
  ELSE [ok |-> TRUE,
        quotes |-> [qs EXCEPT ![c.id] = savePaths(qs[c.id], c.orig, c.doc, QuoteFields)]]

\* Seeded fault: the saved price is pushed into the bookings of the quote.
updateQuoteSave_propagates(p) ==
  /\ calls[p].op = "updateQuote" /\ calls[p].pc = "save"
  /\ LET r == saveQuote(calls[p], now, quotes)
     IN /\ quotes' = r.quotes
        /\ bookings' = [i \in DOMAIN bookings |->
             IF r.ok /\ bookings[i].quoteRequest = calls[p].id
             THEN [bookings[i] EXCEPT !.pricePerDay = calls[p].doc.estimatedPrice]
             ELSE bookings[i]]
        /\ calls' = [calls EXCEPT ![p] =
             IF r.ok THEN Finish(@, Response(200, TRUE, "updated"))
             ELSE Finish(@, Response(500, FALSE, "error"))]
  /\ UNCHANGED <<history, nextQuoteId, nextBookingId, now>>

updateQuoteSave(p) ==
  /\ calls[p].op = "updateQuote" /\ calls[p].pc = "save"
  /\ LET r == saveQuote(calls[p], now, quotes)
     IN /\ quotes' = r.quotes
        /\ calls' = [calls EXCEPT ![p] =
             IF r.ok THEN Finish(@, Response(200, TRUE, "updated"))
             ELSE Finish(@, Response(500, FALSE, "error"))]
  /\ UNCHANGED <<bookings, history, nextQuoteId, nextBookingId, now>>

\* deleteQuote: find, then deleteOne.
deleteQuote(p, actor, id) ==
  /\ Free(p)
  /\ LET c == Start(p, "deleteQuote", id, actor, NoBody)
     IN calls' = [calls EXCEPT ![p] =
          IF id \notin DOMAIN quotes THEN Finish(c, Response(404, FALSE, "not found"))
          ELSE [c EXCEPT !.pc = "delete", !.orig = quotes[id], !.doc = quotes[id]]]
  /\ UNCHANGED <<quotes, bookings, history, nextQuoteId, nextBookingId, now>>

remove(store, id) == [i \in (DOMAIN store) \ {id} |-> store[i]]

\* Seeded fault: the deletion cascades to the audit entries of the quote.
deleteQuoteDelete_cascade(p) ==
  /\ calls[p].op = "deleteQuote" /\ calls[p].pc = "delete"
  /\ quotes' = remove(quotes, calls[p].id)
  /\ LET kept(e) == e.quoteId # calls[p].id IN history' = SelectSeq(history, kept)
  /\ calls' = [calls EXCEPT ![p] = Finish(@, Response(200, TRUE, "deleted"))]
  /\ UNCHANGED <<bookings, nextQuoteId, nextBookingId, now>>

deleteQuoteDelete(p) ==
  /\ calls[p].op = "deleteQuote" /\ calls[p].pc = "delete"
  /\ quotes' = remove(quotes, calls[p].id)
  /\ calls' = [calls EXCEPT ![p] = Finish(@, Response(200, TRUE, "deleted"))]
  /\ UNCHANGED <<bookings, history, nextQuoteId, nextBookingId, now>>

\* submitQuotation: validate, find, save, audit entry, e-mail, audit entry, respond.
\* Seeded fault: a price of zero passes the validation.
invalidPrice_zeroAccepted(estimatedPrice) == estimatedPrice = None \/ estimatedPrice[1] < 0

invalidPrice(estimatedPrice) == estimatedPrice = None \/ estimatedPrice[1] = 0 \/ estimatedPrice[1] <= 0

\* Seeded fault: the notes of the request replace the stored ones also when absent.
applyQuotation_notesOverwritten(quote, body) ==
  [quote EXCEPT
     !.status = "quoted",
     !.estimatedPrice = body.estimatedPrice,
     !.adminNotes = body.adminNotes]

\* Seeded fault: the status is left as it was.
applyQuotation_statusKept(quote, body) ==
  [quote EXCEPT
     !.estimatedPrice = body.estimatedPrice,
     !.adminNotes = IF body.adminNotes # UNDEF /\ body.adminNotes # "" THEN body.adminNotes ELSE @]

applyQuotation(quote, body) ==
  [quote EXCEPT
     !.status = "quoted",
     !.estimatedPrice = body.estimatedPrice,
     !.adminNotes = IF body.adminNotes # UNDEF /\ body.adminNotes # "" THEN body.adminNotes ELSE @]

\* The audit log has room for the two entries of one more call.
historyRoom(cap) ==
  Len(history) + 2 * Cardinality({q \in Procs : calls[q].op = "submitQuotation" /\ ~Free(q)}) + 2 <= cap

\* Seeded fault: the e-mail goes out first, the quote is not saved before it.
submitValidateAndFind_emailFirst(p, actor, id, body) ==
  /\ Free(p)
  /\ LET c == Start(p, "submitQuotation", id, actor, body)
     IN calls' = [calls EXCEPT ![p] =
          IF invalidPrice(body.estimatedPrice) THEN Finish(c, Response(400, FALSE, "invalid price"))
          ELSE IF id \notin DOMAIN quotes THEN Finish(c, Response(404, FALSE, "not found"))
          ELSE [c EXCEPT !.pc = "email", !.orig = quotes[id], !.prev = stateOf(quotes[id]),
                         !.doc = applyQuotation(quotes[id], body)]]
  /\ UNCHANGED <<quotes, bookings, history, nextQuoteId, nextBookingId, now>>

\* Seeded fault: the snapshot of the previous state is taken after the assignments.
submitValidateAndFind_snapshotAfter(p, actor, id, body) ==
  /\ Free(p)
  /\ LET c == Start(p, "submitQuotation", id, actor, body)
     IN calls' = [calls EXCEPT ![p] =
          IF invalidPrice(body.estimatedPrice) THEN Finish(c, Response(400, FALSE, "invalid price"))
          ELSE IF id \notin DOMAIN quotes THEN Finish(c, Response(404, FALSE, "not found"))
          ELSE [c EXCEPT !.pc = "save", !.orig = quotes[id],
                         !.prev = stateOf(applyQuotation(quotes[id], body)),
                         !.doc = applyQuotation(quotes[id], body)]]
  /\ UNCHANGED <<quotes, bookings, history, nextQuoteId, nextBookingId, now>>

\* The arrival of submitQuotation: the price check and the read of the quote.
submitValidateAndFind(p, actor, id, body) ==
  /\ Free(p)
  /\ LET c == Start(p, "submitQuotation", id, actor, body)
     IN calls' = [calls EXCEPT ![p] =
          IF invalidPrice(body.estimatedPrice) THEN Finish(c, Response(400, FALSE, "invalid price"))
          ELSE IF id \notin DOMAIN quotes THEN Finish(c, Response(404, FALSE, "not found"))
          ELSE [c EXCEPT !.pc = "save", !.orig = quotes[id], !.prev = stateOf(quotes[id]),
                         !.doc = applyQuotation(quotes[id], body)]]
  /\ UNCHANGED <<quotes, bookings, history, nextQuoteId, nextBookingId, now>>

submitQuotation(p, actor, id, body) ==
  /\ historyRoom(MaxHistory)
  /\ submitValidateAndFind(p, actor, id, body)

\* submitQuotation where the audit log has room for the entries of two calls.
submitQuotationRacing(p, actor, id, body) ==
  /\ historyRoom(RaceHistory)
  /\ submitValidateAndFind(p, actor, id, body)

\* The catch block of submitQuotation: log and answer 500; nothing is undone.
submitCatch(c) == Finish(c, Response(500, FALSE, "Error submitting quotation"))

submitSave(p) ==
  /\ calls[p].op = "submitQuotation" /\ calls[p].pc = "save"
  /\ LET r == saveQuote(calls[p], now, quotes)
     IN /\ quotes' = r.quotes
        /\ calls' = [calls EXCEPT ![p] =
             IF r.ok THEN [@ EXCEPT !.pc = "audit1"] ELSE submitCatch(@)]
  /\ UNCHANGED <<bookings, history, nextQuoteId, nextBookingId, now>>

submitAuditPrice(p) ==
  /\ calls[p].op = "submitQuotation" /\ calls[p].pc = "audit1"
  /\ history' = createEntry(history,
       HistoryEntry(calls[p].id, calls[p].actor.id, "price_updated", calls[p].prev,
                    stateOf(calls[p].doc), UNDEF, UNDEF))
  /\ calls' = [calls EXCEPT ![p].pc = "email"]
  /\ UNCHANGED <<quotes, bookings, nextQuoteId, nextBookingId, now>>

submitEmail(p, outcome) ==
  /\ calls[p].op = "submitQuotation" /\ calls[p].pc = "email"
  /\ LET r == sendQuotationEmail(outcome)
         c == [calls[p] EXCEPT !.transport = outcome, !.emailResult = r]
     IN calls' = [calls EXCEPT ![p] =
          IF r.threw THEN submitCatch(c) ELSE [c EXCEPT !.pc = "audit2"]]
  /\ UNCHANGED <<quotes, bookings, history, nextQuoteId, nextBookingId, now>>

submitResponse(emailResult) ==
  IF emailResult.success
  THEN [code |-> 200, success |-> TRUE, message |-> "Quotation submitted and email sent successfully",
        emailSent |-> "true", warning |-> FALSE]
  ELSE [code |-> 200, success |-> TRUE, message |-> "Quotation saved but email delivery failed",
        emailSent |-> "false", warning |-> TRUE]

submitAuditEmail(p) ==
  /\ calls[p].op = "submitQuotation" /\ calls[p].pc = "audit2"
  /\ history' = createEntry(history,
       HistoryEntry(calls[p].id, calls[p].actor.id, "email_sent", NoDoc, NoDoc,
                    IF calls[p].emailResult.success THEN "success" ELSE "failed",
                    calls[p].emailResult.messageId))
  /\ calls' = [calls EXCEPT ![p] = Finish(@, submitResponse(calls[p].emailResult))]
  /\ UNCHANGED <<quotes, bookings, nextQuoteId, nextBookingId, now>>

----------------------------------------------------------------------------
(* Booking schema *)

\* Validation of a Booking document on create and on every save.
BookingValid(b) ==
  /\ b.quoteRequest # 0
  /\ b.user # UNDEF
  /\ b.pickupLocation # UNDEF
  /\ b.dropoffLocation # UNDEF
  /\ b.numberOfDays >= 1
  /\ b.busType \in BusTypes
  /\ b.numberOfPassengers >= 1
  /\ b.totalPrice # None /\ b.totalPrice[1] >= 0
  /\ b.pricePerDay # None /\ b.pricePerDay[1] >= 0
  /\ b.status \in BookingStatuses
  /\ b.paymentStatus \in PaymentStatuses
  /\ b.bookingType \in BookingTypes
  /\ (b.paymentMethod # UNDEF => b.paymentMethod \in PaymentMethods)

\* pre('save'): the return date is computed when the document has none.
\* Seeded fault: the return date is computed on every save.
preSave_alwaysComputes(b) ==
  IF b.numberOfDays # 0
  THEN [b EXCEPT !.returnDate = Some(b.departureDate + b.numberOfDays * DayLen)]
  ELSE b

preSave(b) ==
  IF b.returnDate = None /\ b.numberOfDays # 0
  THEN [b EXCEPT !.returnDate = Some(b.departureDate + b.numberOfDays * DayLen)]
  ELSE b

\* Instance method markAsPaid, up to its save.
\* Seeded fault: the booking type is left as it was.
bookingMarkAsPaid_typeKept(b, paymentDetails, t) ==
  [b EXCEPT !.paymentStatus = "paid",
            !.paymentDate = IF paymentDetails.paymentDate # None THEN paymentDetails.paymentDate ELSE Some(t),
            !.paymentMethod = paymentDetails.paymentMethod,
            !.invoiceNumber = paymentDetails.invoiceNumber]

\* Seeded fault: the payment also confirms the booking.
bookingMarkAsPaid_confirms(b, paymentDetails, t) ==
  [b EXCEPT !.status = "confirmed",
            !.paymentStatus = "paid",
            !.bookingType = "paid",
            !.paymentDate = IF paymentDetails.paymentDate # None THEN paymentDetails.paymentDate ELSE Some(t),
            !.paymentMethod = paymentDetails.paymentMethod,
            !.invoiceNumber = paymentDetails.invoiceNumber]

\* Seeded fault: the payment date is always the current time.
bookingMarkAsPaid_alwaysNow(b, paymentDetails, t) ==
  [b EXCEPT !.paymentStatus = "paid",
            !.bookingType = "paid",
            !.paymentDate = Some(t),
            !.paymentMethod = paymentDetails.paymentMethod,
            !.invoiceNumber = paymentDetails.invoiceNumber]

bookingMarkAsPaid(b, paymentDetails, t) ==
  [b EXCEPT !.paymentStatus = "paid",
            !.bookingType = "paid",
            !.paymentDate = IF paymentDetails.paymentDate # None THEN paymentDetails.paymentDate ELSE Some(t),
            !.paymentMethod = paymentDetails.paymentMethod,
            !.invoiceNumber = paymentDetails.invoiceNumber]

\* Instance method cancel, up to its save.
\* Seeded fault: the acting user is not recorded.
bookingCancel_actorDropped(b, userId, reason, t) ==
  [b EXCEPT !.status = "cancelled",
            !.cancellationReason = reason,
            !.cancelledAt = Some(t)]

bookingCancel(b, userId, reason, t) ==
  [b EXCEPT !.status = "cancelled",
            !.cancellationReason = reason,
            !.cancelledAt = Some(t),
            !.cancelledBy = userId]

BookingFields ==
  {"returnDate", "status", "paymentStatus", "bookingType", "paymentMethod", "paymentDate",
   "invoiceNumber", "adminNotes", "cancellationReason", "cancelledAt", "cancelledBy"}

\* booking.save(): validation, the pre-save hook, then the write of the modified paths.
saveBooking(c, bs) ==
  LET d == preSave(c.doc)
  IN IF ~BookingValid(c.doc) THEN [ok |-> FALSE, bookings |-> bs, doc |-> c.doc]
     ELSE IF ~isModified(c.orig, d, BookingFields) THEN [ok |-> TRUE, bookings |-> bs, doc |-> d]
     ELSE IF c.id \notin DOMAIN bs THEN [ok |-> FALSE, bookings |-> bs, doc |-> d]
     ELSE [ok |-> TRUE, doc |-> d,
           bookings |-> [bs EXCEPT ![c.id] = savePaths(bs[c.id], c.orig, d, BookingFields)]]

----------------------------------------------------------------------------
(* Booking controller *)

\* Seeded fault: a quoted quote passes the approval check.
notApproved_quotedPasses(quote) == quote.status \notin {"approved", "quoted"}

notApproved(quote) == quote.status # "approved"

\* Seeded fault: cancelled bookings are not counted as existing.
existingBooking_activeOnly(bs, quoteRequestId) ==
  \E i \in DOMAIN bs : bs[i].quoteRequest = quoteRequestId /\ bs[i].status # "cancelled"

\* Booking.findOne({ quoteRequest: quoteRequestId })
existingBooking(bs, quoteRequestId) == \E i \in DOMAIN bs : bs[i].quoteRequest = quoteRequestId

times(price, days) == IF price = None THEN None ELSE Some(price[1] * days)

\* Seeded fault: the total price is the price of one day.
NewBooking_totalIsDaily(quote, quoteId) ==
  [quoteRequest |-> quoteId, user |-> quote.user,
   pickupLocation |-> quote.pickupLocation, dropoffLocation |-> quote.dropoffLocation,
   departureDate |-> quote.departureDate, returnDate |-> None,
   numberOfDays |-> quote.numberOfDays, busType |-> quote.busType,
   numberOfPassengers |-> quote.numberOfPassengers,
   pricePerDay |-> quote.estimatedPrice,
   totalPrice |-> quote.estimatedPrice,
   adminNotes |-> quote.adminNotes,
   status |-> "confirmed", paymentStatus |-> "pending", bookingType |-> "confirmed",
   paymentMethod |-> UNDEF, paymentDate |-> None, invoiceNumber |-> UNDEF,
   cancellationReason |-> UNDEF, cancelledAt |-> None, cancelledBy |-> UNDEF]

NewBooking(quote, quoteId) ==
  [quoteRequest |-> quoteId, user |-> quote.user,
   pickupLocation |-> quote.pickupLocation, dropoffLocation |-> quote.dropoffLocation,
   departureDate |-> quote.departureDate, returnDate |-> None,
   numberOfDays |-> quote.numberOfDays, busType |-> quote.busType,
   numberOfPassengers |-> quote.numberOfPassengers,
   pricePerDay |-> quote.estimatedPrice,
   totalPrice |-> times(quote.estimatedPrice, quote.numberOfDays),
   adminNotes |-> quote.adminNotes,
   status |-> "confirmed", paymentStatus |-> "pending", bookingType |-> "confirmed",
   paymentMethod |-> UNDEF, paymentDate |-> None, invoiceNumber |-> UNDEF,
   cancellationReason |-> UNDEF, cancelledAt |-> None, cancelledBy |-> UNDEF]

\* createBookingFromQuotation: find the quote, look for a booking of it, create.
createBookingFromQuotation(p, actor, quoteRequestId) ==
  /\ Free(p)
  /\ LET c == Start(p, "createBookingFromQuotation", quoteRequestId, actor, NoBody)
     IN calls' = [calls EXCEPT ![p] =
          IF quoteRequestId \notin DOMAIN quotes THEN Finish(c, Response(404, FALSE, "not found"))
          ELSE IF notApproved(quotes[quoteRequestId])
               THEN Finish(c, Response(400, FALSE, "not approved"))
          ELSE [c EXCEPT !.pc = "findBooking", !.orig = quotes[quoteRequestId]]]
  /\ UNCHANGED <<quotes, bookings, history, nextQuoteId, nextBookingId, now>>

createBookingFind(p) ==
  /\ calls[p].op = "createBookingFromQuotation" /\ calls[p].pc = "findBooking"
  /\ calls' = [calls EXCEPT ![p] =
       IF existingBooking(bookings, calls[p].id)
       THEN Finish(@, Response(400, FALSE, "already exists"))
       ELSE [@ EXCEPT !.pc = "create"]]
  /\ UNCHANGED <<quotes, bookings, history, nextQuoteId, nextBookingId, now>>

createBookingCreate(p) ==
  /\ calls[p].op = "createBookingFromQuotation" /\ calls[p].pc = "create"
  /\ LET b == NewBooking(calls[p].orig, calls[p].id)
     IN IF BookingValid(b)
        THEN /\ nextBookingId <= MaxBookings
             /\ bookings' = bookings @@ (nextBookingId :> preSave(b))
             /\ nextBookingId' = nextBookingId + 1
             /\ calls' = [calls EXCEPT ![p] =
                  Finish([@ EXCEPT !.doc = preSave(b)], Response(201, TRUE, "created"))]
        ELSE /\ calls' = [calls EXCEPT ![p] = Finish(@, Response(500, FALSE, "error"))]
             /\ UNCHANGED <<bookings, nextBookingId>>
  /\ UNCHANGED <<quotes, history, nextQuoteId, now>>

\* Booking.create(data): validation, the pre-save hook, then the insert.
bookingCreate(p) ==
  /\ calls[p].op = "Booking.create" /\ calls[p].pc = "create"
  /\ IF BookingValid(calls[p].doc)
     THEN /\ nextBookingId <= MaxBookings
          /\ bookings' = bookings @@ (nextBookingId :> preSave(calls[p].doc))
          /\ nextBookingId' = nextBookingId + 1
          /\ calls' = [calls EXCEPT ![p] =
               Finish([@ EXCEPT !.id = nextBookingId, !.orig = calls[p].doc, !.doc = preSave(calls[p].doc)],
                      Response(201, TRUE, "created"))]
     ELSE /\ calls' = [calls EXCEPT ![p] = Finish(@, Response(500, FALSE, "error"))]
          /\ UNCHANGED <<bookings, nextBookingId>>
  /\ UNCHANGED <<quotes, history, nextQuoteId, now>>

\* A caller hands a document to Booking.create.
seedBooking(p, data) ==
  /\ Free(p)
  /\ calls' = [calls EXCEPT ![p] =
       [Start(p, "Booking.create", 0, Admin, NoBody) EXCEPT !.pc = "create", !.doc = data]]
  /\ UNCHANGED <<quotes, bookings, history, nextQuoteId, nextBookingId, now>>

\* Seeded fault: the bookings of the range come back in any order.
getByDateRange_unsorted(bs, startDate, endDate) ==
  LET M == {i \in DOMAIN bs : bs[i].departureDate >= startDate /\ bs[i].departureDate <= endDate}
  IN {f \in [1..Cardinality(M) -> M] : \A j, k \in 1..Cardinality(M) : j # k => f[j] # f[k]}

\* Booking.getByDateRange: the ids of the bookings that depart within the range, sorted
\* by departureDate; bookings with equal departures come in either order.
getByDateRange(bs, startDate, endDate) ==
  LET M == {i \in DOMAIN bs : bs[i].departureDate >= startDate /\ bs[i].departureDate <= endDate}
  IN {f \in [1..Cardinality(M) -> M] :
        /\ \A j, k \in 1..Cardinality(M) : j # k => f[j] # f[k]
        /\ \A j, k \in 1..Cardinality(M) : j < k => bs[f[j]].departureDate <= bs[f[k]].departureDate}

\* One element of the map in Booking.getCalendarEvents.
calendarEvent(id, booking) ==
  [id |-> id, title |-> <<booking.user, booking.busType>>,
   start |-> booking.departureDate,
   end |-> IF booking.returnDate # None THEN booking.returnDate[1] ELSE booking.departureDate,
   resource |-> [bookingType |-> booking.bookingType, status |-> booking.status,
                 paymentStatus |-> booking.paymentStatus]]

\* getCalendarEvents: the presence check of the two bounds, then one read.
getCalendarEvents(p, actor, query) ==
  /\ Free(p)
  /\ LET c == Start(p, "getCalendarEvents", 0, actor, query)
     IN IF query.start = None \/ query.end = None
        THEN calls' = [calls EXCEPT ![p] = Finish(c, Response(400, FALSE, "dates required"))]
        ELSE \E f \in getByDateRange(bookings, query.start[1], query.end[1]) :
               calls' = [calls EXCEPT ![p] =
                 Finish([c EXCEPT !.doc = [exists |-> TRUE,
                                           events |-> [j \in DOMAIN f |-> calendarEvent(f[j], bookings[f[j]])]]],
                        Response(200, TRUE, "ok"))]
  /\ UNCHANGED <<quotes, bookings, history, nextQuoteId, nextBookingId, now>>

\* updateBookingStatus: find, assign the supplied fields, save.
applyStatus(b, body) ==
  [b EXCEPT !.status = IF body.status # UNDEF /\ body.status # "" THEN body.status ELSE @,
            !.adminNotes = IF body.adminNotes # UNDEF /\ body.adminNotes # "" THEN body.adminNotes ELSE @]

updateBookingStatus(p, actor, id, body) ==
  /\ Free(p)
  /\ LET c == Start(p, "updateBookingStatus", id, actor, body)
     IN calls' = [calls EXCEPT ![p] =
          IF id \notin DOMAIN bookings THEN Finish(c, Response(404, FALSE, "not found"))
          ELSE [c EXCEPT !.pc = "save", !.orig = bookings[id], !.doc = applyStatus(bookings[id], body)]]
  /\ UNCHANGED <<quotes, bookings, history, nextQuoteId, nextBookingId, now>>

\* markAsPaid: find, then the instance method and its save.
markAsPaid(p, actor, id, body) ==
  /\ Free(p)
  /\ LET c == Start(p, "markAsPaid", id, actor, body)
         details == [paymentMethod |-> body.paymentMethod, invoiceNumber |-> body.invoiceNumber,
                     paymentDate |-> IF body.paymentDate # None THEN body.paymentDate ELSE Some(now)]
     IN calls' = [calls EXCEPT ![p] =
          IF id \notin DOMAIN bookings THEN Finish(c, Response(404, FALSE, "not found"))
          ELSE [c EXCEPT !.pc = "save", !.orig = bookings[id],
                         !.doc = bookingMarkAsPaid(bookings[id], details, now)]]
  /\ UNCHANGED <<quotes, bookings, history, nextQuoteId, nextBookingId, now>>

\* Seeded fault: the status is compared with a misspelt value.
alreadyCancelled_misspelt(b) == b.status = "canceled"

\* Seeded fault: the cancellation is recorded before the status is checked.
cancelBooking_checkAfter(p, actor, id, body) ==
  /\ Free(p)
  /\ LET c == Start(p, "cancelBooking", id, actor, body)
     IN IF id \notin DOMAIN bookings
        THEN /\ calls' = [calls EXCEPT ![p] = Finish(c, Response(404, FALSE, "not found"))]
             /\ UNCHANGED bookings
        ELSE /\ bookings' = [bookings EXCEPT ![id] = bookingCancel(@, actor.id, body.reason, now)]
             /\ calls' = [calls EXCEPT ![p] =
                  IF bookings[id].status = "cancelled"
                  THEN Finish(c, Response(400, FALSE, "already cancelled"))
                  ELSE Finish([c EXCEPT !.doc = bookings'[id]], Response(200, TRUE, "ok"))]
  /\ UNCHANGED <<quotes, history, nextQuoteId, nextBookingId, now>>

\* cancelBooking: find, refuse a cancelled booking, then the instance method and its save.
alreadyCancelled(b) == b.status = "cancelled"

cancelBooking(p, actor, id, body) ==
  /\ Free(p)
  /\ LET c == Start(p, "cancelBooking", id, actor, body)
     IN calls' = [calls EXCEPT ![p] =
          IF id \notin DOMAIN bookings THEN Finish(c, Response(404, FALSE, "not found"))
          ELSE IF alreadyCancelled(bookings[id])
               THEN Finish(c, Response(400, FALSE, "already cancelled"))
          ELSE [c EXCEPT !.pc = "save", !.orig = bookings[id],
                         !.doc = bookingCancel(bookings[id], actor.id, body.reason, now)]]
  /\ UNCHANGED <<quotes, bookings, history, nextQuoteId, nextBookingId, now>>

\* The save that ends updateBookingStatus, markAsPaid and cancelBooking.
bookingSave(p) ==
  /\ calls[p].op \in {"updateBookingStatus", "markAsPaid", "cancelBooking"}
  /\ calls[p].pc = "save"
  /\ LET r == saveBooking(calls[p], bookings)
     IN /\ bookings' = r.bookings
        /\ calls' = [calls EXCEPT ![p] =
             IF r.ok THEN Finish([@ EXCEPT !.doc = r.doc], Response(200, TRUE, "ok"))
             ELSE Finish(@, Response(500, FALSE, "error"))]
  /\ UNCHANGED <<quotes, history, nextQuoteId, nextBookingId, now>>

\* deleteBooking: find, then deleteOne.
deleteBooking(p, actor, id) ==
  /\ Free(p)
  /\ LET c == Start(p, "deleteBooking", id, actor, NoBody)
     IN calls' = [calls EXCEPT ![p] =
          IF id \notin DOMAIN bookings THEN Finish(c, Response(404, FALSE, "not found"))
          ELSE [c EXCEPT !.pc = "delete", !.orig = bookings[id], !.doc = bookings[id]]]
  /\ UNCHANGED <<quotes, bookings, history, nextQuoteId, nextBookingId, now>>

deleteBookingDelete(p) ==
  /\ calls[p].op = "deleteBooking" /\ calls[p].pc = "delete"
  /\ bookings' = remove(bookings, calls[p].id)
  /\ calls' = [calls EXCEPT ![p] = Finish(@, Response(200, TRUE, "deleted"))]
  /\ UNCHANGED <<quotes, history, nextQuoteId, nextBookingId, now>>

----------------------------------------------------------------------------
Tick ==
  /\ now < MaxNow
  /\ now' = now + 1
  /\ UNCHANGED <<quotes, bookings, history, nextQuoteId, nextBookingId, calls>>

Init ==
  /\ quotes = <<>>
  /\ bookings = <<>>
  /\ history = <<>>
  /\ nextQuoteId = 1
  /\ nextBookingId = 1
  /\ now = 0
  /\ calls = [p \in Procs |-> Idle]

(* Requests *)

Owner == CHOOSE a \in Customers : a.id = "u1"
QuoteIds == 1..MaxQuotes
BookingIds == 1..MaxBookings

UpdateBody(status, price, notes) == [status |-> status, estimatedPrice |-> price, adminNotes |-> notes]
SubmitBody(price, notes) == [estimatedPrice |-> price, adminNotes |-> notes]

\* The requests of the full sequential specification.
Inputs ==
  [create |-> {CreateQuoteBody("Manila", "Baguio", 3, "49-seater", 49, 0),
               CreateQuoteBody("Manila", "Baguio", 3, "49-seater", 50, 0),
               CreateQuoteBody(UNDEF, "Baguio", 3, "49-seater", 49, 0)},
   actors |-> Actors,
   update |-> {UpdateBody("approved", None, UNDEF), UpdateBody("rejected", None, UNDEF),
               UpdateBody(UNDEF, Some(-1), UNDEF)},
   submit |-> {SubmitBody(None, UNDEF), SubmitBody(Some(-1), "b"), SubmitBody(Some(0), "b"),
               SubmitBody(Some(2), UNDEF), SubmitBody(Some(2), "b")},
   status |-> [status : {"completed"}, adminNotes : {UNDEF}],
   paid |-> [paymentMethod : {"cash"}, invoiceNumber : {"INV-1"}, paymentDate : {None}],
   cancel |-> [reason : {"r1"}]]

QuoteStep(p, I) ==
  \/ \E b \in I.create : createQuote(p, Owner, b)
  \/ \E a \in I.actors, id \in QuoteIds : getQuoteById(p, a, id)
  \/ \E id \in QuoteIds, b \in I.update : updateQuote(p, Admin, id, b)
  \/ updateQuoteSave(p)
  \/ \E id \in QuoteIds : deleteQuote(p, Admin, id)
  \/ deleteQuoteDelete(p)
  \/ \E id \in QuoteIds, b \in I.submit : submitQuotation(p, Admin, id, b)
  \/ submitSave(p)
  \/ submitAuditPrice(p)
  \/ \E o \in {"delivered", "failed"} : submitEmail(p, o)
  \/ submitAuditEmail(p)

BookingStep(p, I) ==
  \/ \E id \in QuoteIds : createBookingFromQuotation(p, Admin, id)
  \/ createBookingFind(p)
  \/ createBookingCreate(p)
  \/ \E id \in BookingIds, b \in I.status : updateBookingStatus(p, Admin, id, b)
  \/ \E id \in BookingIds, b \in I.paid : markAsPaid(p, Admin, id, b)
  \/ \E id \in BookingIds, b \in I.cancel : cancelBooking(p, Admin, id, b)
  \/ bookingSave(p)
  \/ \E id \in BookingIds : deleteBooking(p, Admin, id)
  \/ deleteBookingDelete(p)

Next ==
  \/ Tick
  \/ \E p \in SeqProcs : QuoteStep(p, Inputs)
  \/ \E p \in SeqProcs : BookingStep(p, Inputs)

\* Requests are served one at a time.
Spec == Init /\ [][Next]_vars

\* The requests of the concurrent specification: two callers, handlers interleaved
\* at their database operations.
ConcInputs ==
  [create |-> {CreateQuoteBody("Manila", "Baguio", 3, "49-seater", 49, MaxNow)},
   update |-> {UpdateBody("approved", Some(1), UNDEF)},
   cancel |-> [reason : {"r1", "r2"}]]

ConcStep(p, I) ==
  \/ \E b \in I.create : createQuote(p, Owner, b)
  \/ \E id \in QuoteIds, b \in I.update : updateQuote(p, Admin, id, b)
  \/ updateQuoteSave(p)
  \/ \E id \in QuoteIds : createBookingFromQuotation(p, Admin, id)
  \/ createBookingFind(p)
  \/ createBookingCreate(p)
  \/ \E id \in BookingIds, b \in I.cancel : cancelBooking(p, Admin, id, b)
  \/ bookingSave(p)

ConcNext ==
  \/ Tick
  \/ \E p \in Procs : ConcStep(p, ConcInputs)

ConcSpec == Init /\ [][ConcNext]_vars

\* The requests of the quote intake: both bus types at and just above their
\* capacity, departures on every instant of the clock, either customer as the
\* requester, and reads by every actor.
IntakeInputs ==
  [create |-> {CreateQuoteBody("Manila", "Baguio", 1, bp[1], bp[2], d) :
                 bp \in {<<"49-seater", 49>>, <<"49-seater", 50>>,
                         <<"60-seater", 60>>, <<"60-seater", 61>>},
                 d \in 0..MaxNow}
               \cup {CreateQuoteBody("Manila", UNDEF, 1, "49-seater", 49, MaxNow)},
   requesters |-> Customers,
   actors |-> Actors]

IntakeStep(p, I) ==
  \/ \E a \in I.requesters, b \in I.create : createQuote(p, a, b)
  \/ \E a \in I.actors, id \in QuoteIds : getQuoteById(p, a, id)
  \/ \E id \in QuoteIds : deleteQuote(p, Admin, id)
  \/ deleteQuoteDelete(p)

IntakeNext ==
  \/ Tick
  \/ \E p \in SeqProcs : IntakeStep(p, IntakeInputs)

IntakeSpec == Init /\ [][IntakeNext]_vars

\* The requests of the quotation-to-booking flow: one trip (Manila to Baguio, 3 days,
\* 49-seater, 45 passengers, a departure that stays in the future), priced either
\* by submitQuotation or by updateQuote, approved, booked, and edited afterwards.
FlowInputs ==
  [create |-> {CreateQuoteBody("Manila", "Baguio", 3, "49-seater", 45, MaxNow)},
   update |-> {UpdateBody("approved", None, UNDEF), UpdateBody(UNDEF, Some(20000), UNDEF)},
   submit |-> {SubmitBody(Some(15000), UNDEF)}]

FlowStep(p, I) ==
  \/ \E b \in I.create : createQuote(p, Owner, b)
  \/ \E id \in QuoteIds, b \in I.update : updateQuote(p, Admin, id, b)
  \/ updateQuoteSave(p)
  \/ \E id \in QuoteIds : deleteQuote(p, Admin, id)
  \/ deleteQuoteDelete(p)
  \/ \E id \in QuoteIds, b \in I.submit : submitQuotation(p, Admin, id, b)
  \/ submitSave(p)
  \/ submitAuditPrice(p)
  \/ \E o \in {"delivered", "failed"} : submitEmail(p, o)
  \/ submitAuditEmail(p)
  \/ \E id \in QuoteIds : createBookingFromQuotation(p, Admin, id)
  \/ createBookingFind(p)
  \/ createBookingCreate(p)

FlowNext ==
  \/ Tick
  \/ \E p \in SeqProcs : FlowStep(p, FlowInputs)

FlowSpec == Init /\ [][FlowNext]_vars

\* The requests of the booking administration: one quote priced and approved by
\* updateQuote, booked, then paid (with and without a payment date), cancelled and
\* moved through its statuses while the clock advances.
AdminInputs ==
  [create |-> {CreateQuoteBody("Manila", "Baguio", 3, "49-seater", 45, MaxNow)},
   update |-> {UpdateBody("approved", Some(15000), UNDEF)},
   status |-> [status : {"in-progress"}, adminNotes : {UNDEF}],
   paid |-> [paymentMethod : {"cash"}, invoiceNumber : {"INV-1"}, paymentDate : {None, Some(0)}],
   cancel |-> [reason : {"r1"}]]

AdminStep(p, I) ==
  \/ \E b \in I.create : createQuote(p, Owner, b)
  \/ \E id \in QuoteIds, b \in I.update : updateQuote(p, Admin, id, b)
  \/ updateQuoteSave(p)
  \/ \E id \in QuoteIds : createBookingFromQuotation(p, Admin, id)
  \/ createBookingFind(p)
  \/ createBookingCreate(p)
  \/ \E id \in BookingIds, b \in I.status : updateBookingStatus(p, Admin, id, b)
  \/ \E id \in BookingIds, b \in I.paid : markAsPaid(p, Admin, id, b)
  \/ \E id \in BookingIds, b \in I.cancel : cancelBooking(p, Admin, id, b)
  \/ bookingSave(p)

AdminNext ==
  \/ Tick
  \/ \E p \in SeqProcs : AdminStep(p, AdminInputs)

AdminSpec == Init /\ [][AdminNext]_vars

\* Documents handed to Booking.create: every departure of the clock, one or two
\* days, and a return date that is absent or supplied.
MaxDays == 2

BookingData ==
  {[quoteRequest |-> 1, user |-> "u1", pickupLocation |-> "Manila", dropoffLocation |-> "Baguio",
    departureDate |-> d, returnDate |-> r, numberOfDays |-> n, busType |-> "49-seater",
    numberOfPassengers |-> 45, pricePerDay |-> Some(15000), totalPrice |-> Some(15000 * n),
    adminNotes |-> UNDEF, status |-> "confirmed", paymentStatus |-> "pending",
    bookingType |-> "confirmed", paymentMethod |-> UNDEF, paymentDate |-> None,
    invoiceNumber |-> UNDEF, cancellationReason |-> UNDEF, cancelledAt |-> None,
    cancelledBy |-> UNDEF] :
     d \in 0..MaxNow, n \in 1..MaxDays,
     r \in {None} \cup {Some(x) : x \in 0..(MaxNow + DayLen)}}

\* A Booking.create call is pending on one of the documents.
SaveInit ==
  /\ quotes = <<>>
  /\ bookings = <<>>
  /\ history = <<>>
  /\ nextQuoteId = 1
  /\ nextBookingId = 1
  /\ now = 0
  /\ \E data \in BookingData :
       calls = [p \in Procs |->
         IF p = 1 THEN [Idle EXCEPT !.op = "Booking.create", !.pc = "create", !.doc = data]
         ELSE Idle]

SaveInputs ==
  [status |-> [status : {"completed"}, adminNotes : {UNDEF}],
   paid |-> [paymentMethod : {"gcash"}, invoiceNumber : {"INV-1"}, paymentDate : {None}],
   cancel |-> [reason : {"r1"}]]

SaveStep(p, I) ==
  \/ bookingCreate(p)
  \/ \E id \in BookingIds, b \in I.status : updateBookingStatus(p, Admin, id, b)
  \/ \E id \in BookingIds, b \in I.paid : markAsPaid(p, Admin, id, b)
  \/ \E id \in BookingIds, b \in I.cancel : cancelBooking(p, Admin, id, b)
  \/ bookingSave(p)

SaveNext ==
  \/ Tick
  \/ \E p \in SeqProcs : SaveStep(p, SaveInputs)

SaveSpec == SaveInit /\ [][SaveNext]_vars

\* The requests of the calendar: bookings created from documents with every
\* departure of the clock, with and without a return date, and ranges with either
\* bound missing, in order and swapped.
CalendarInputs ==
  [data |-> {d \in BookingData :
               /\ d.numberOfDays = 1
               /\ d.returnDate \in {None, Some(d.departureDate + 1)}},
   query |-> [start : {None} \cup {Some(t) : t \in 0..MaxNow},
              end : {None} \cup {Some(t) : t \in 0..MaxNow}]]

CalendarStep(p, I) ==
  \/ \E d \in I.data : seedBooking(p, d)
  \/ bookingCreate(p)
  \/ \E q \in I.query : getCalendarEvents(p, Admin, q)

CalendarNext == \E p \in SeqProcs : CalendarStep(p, CalendarInputs)

CalendarSpec == Init /\ [][CalendarNext]_vars

\* The requests of the capacity rule: quotes for both bus types at and just above
\* their capacity, priced and approved by updateQuote and booked.
CapacityInputs ==
  [create |-> IntakeInputs.create,
   update |-> {UpdateBody("approved", Some(15000), UNDEF)}]

CapacityStep(p, I) ==
  \/ \E b \in I.create : createQuote(p, Owner, b)
  \/ \E id \in QuoteIds, b \in I.update : updateQuote(p, Admin, id, b)
  \/ updateQuoteSave(p)
  \/ \E id \in QuoteIds : createBookingFromQuotation(p, Admin, id)
  \/ createBookingFind(p)
  \/ createBookingCreate(p)

CapacityNext ==
  \/ Tick
  \/ \E p \in SeqProcs : CapacityStep(p, CapacityInputs)

CapacitySpec == Init /\ [][CapacityNext]_vars

\* The requests of the pricing race: two admins price the same quote, each by
\* updateQuote or by submitQuotation, with their handlers interleaved at the
\* database and transport operations.
RaceInputs ==
  [create |-> {CreateQuoteBody("Manila", "Baguio", 3, "49-seater", 45, MaxNow)},
   update |-> {UpdateBody(UNDEF, Some(1), UNDEF)},
   submit |-> {SubmitBody(Some(1), UNDEF), SubmitBody(Some(2), UNDEF)}]

RaceStep(p, I) ==
  \/ \E b \in I.create : createQuote(p, Owner, b)
  \/ \E id \in QuoteIds, b \in I.update : updateQuote(p, Admin, id, b)
  \/ updateQuoteSave(p)
  \/ \E id \in QuoteIds, b \in I.submit : submitQuotationRacing(p, Admin, id, b)
  \/ submitSave(p)
  \/ submitAuditPrice(p)
  \/ \E o \in {"delivered", "failed"} : submitEmail(p, o)
  \/ submitAuditEmail(p)

RaceNext == \E p \in Procs : RaceStep(p, RaceInputs)

RaceSpec == Init /\ [][RaceNext]_vars

\* The e-mail send of submitQuotation with the wait for the mail server made
\* visible: the message is handed to the transport, and the send settles when the
\* server answers or when a timeout of the transport runs out.
sendMail(p) ==
  /\ calls[p].op = "submitQuotation" /\ calls[p].pc = "email"
  /\ calls' = [calls EXCEPT ![p].pc = "sending"]
  /\ UNCHANGED <<quotes, bookings, history, nextQuoteId, nextBookingId, now>>

\* The mail server accepts or refuses the message.
mailServerAnswers(p, outcome) ==
  /\ calls[p].op = "submitQuotation" /\ calls[p].pc = "sending"
  /\ LET r == sendQuotationEmail(outcome)
         c == [calls[p] EXCEPT !.transport = outcome, !.emailResult = r]
     IN calls' = [calls EXCEPT ![p] =
          IF r.threw THEN submitCatch(c) ELSE [c EXCEPT !.pc = "audit2"]]
  /\ UNCHANGED <<quotes, bookings, history, nextQuoteId, nextBookingId, now>>

\* Seeded fault: the timeouts of the transport are switched off, the send waits on.
transportTimeout_disabled(p) ==
  /\ calls[p].op = "submitQuotation" /\ calls[p].pc = "sending"
  /\ UNCHANGED vars

\* The connection, greeting or socket timeout of the SMTP transport runs out:
\* sendMail rejects and sendQuotationEmail rethrows.
transportTimeout(p) ==
  /\ calls[p].op = "submitQuotation" /\ calls[p].pc = "sending"
  /\ LET r == sendQuotationEmail("timeout")
         c == [calls[p] EXCEPT !.transport = "timeout", !.emailResult = r]
     IN calls' = [calls EXCEPT ![p] =
          IF r.threw THEN submitCatch(c) ELSE [c EXCEPT !.pc = "audit2"]]
  /\ UNCHANGED <<quotes, bookings, history, nextQuoteId, nextBookingId, now>>

\* Two administrators pricing quotes while the mail server answers, refuses or
\* stays silent.
MailInputs ==
  [create |-> {CreateQuoteBody("Manila", "Baguio", 3, "49-seater", 45, MaxNow)},
   submit |-> {SubmitBody(Some(1), UNDEF)}]

MailStep(p, I) ==
  \/ \E b \in I.create : createQuote(p, Owner, b)
  \/ \E id \in QuoteIds, b \in I.submit : submitQuotationRacing(p, Admin, id, b)
  \/ submitSave(p)
  \/ submitAuditPrice(p)
  \/ sendMail(p)
  \/ \E o \in {"delivered", "failed"} : mailServerAnswers(p, o)
  \/ transportTimeout(p)
  \/ submitAuditEmail(p)

MailNext == \E p \in Procs : MailStep(p, MailInputs)

\* The event loop resumes every handler whose awaited operation has settled, the
\* database operations settle and the timers of the transport fire; nothing
\* obliges a request to arrive or the mail server to answer.
MailFairness ==
  \A p \in Procs :
    /\ WF_vars(submitSave(p))
    /\ WF_vars(submitAuditPrice(p))
    /\ WF_vars(sendMail(p))
    /\ WF_vars(transportTimeout(p))
    /\ WF_vars(submitAuditEmail(p))

MailSpec == Init /\ [][MailNext]_vars /\ MailFairness

\* An administrator annotating a quote with updateQuote and pricing it, with new
\* notes, with empty notes and without notes, one request at a time.
NotesInputs ==
  [create |-> {CreateQuoteBody("Manila", "Baguio", 3, "49-seater", 45, MaxNow)},
   update |-> {UpdateBody(UNDEF, None, "a")},
   submit |-> {SubmitBody(Some(1), UNDEF), SubmitBody(Some(1), ""), SubmitBody(Some(1), "b")}]

NotesStep(p, I) ==
  \/ \E b \in I.create : createQuote(p, Owner, b)
  \/ \E id \in QuoteIds, b \in I.update : updateQuote(p, Admin, id, b)
  \/ updateQuoteSave(p)
  \/ \E id \in QuoteIds, b \in I.submit : submitQuotationRacing(p, Admin, id, b)
  \/ submitSave(p)
  \/ submitAuditPrice(p)
  \/ \E o \in {"delivered", "failed"} : submitEmail(p, o)
  \/ submitAuditEmail(p)

NotesNext == \E p \in SeqProcs : NotesStep(p, NotesInputs)

NotesSpec == Init /\ [][NotesNext]_vars

\* The administration of one booking through all its operations: the quote is
\* priced and approved by updateQuote and booked; the booking is then moved to
\* every status by updateBookingStatus, paid and cancelled, in any order.
LifeInputs ==
  [create |-> {CreateQuoteBody("Manila", "Baguio", 3, "49-seater", 45, MaxNow)},
   update |-> {UpdateBody("approved", Some(15000), UNDEF)},
   status |-> [status : BookingStatuses, adminNotes : {UNDEF}],
   paid |-> [paymentMethod : {"cash"}, invoiceNumber : {"INV-1"}, paymentDate : {None}],
   cancel |-> [reason : {"r1"}]]

LifeStep(p, I) ==
  \/ \E b \in I.create : createQuote(p, Owner, b)
  \/ \E id \in QuoteIds, b \in I.update : updateQuote(p, Admin, id, b)
  \/ updateQuoteSave(p)
  \/ \E id \in QuoteIds : createBookingFromQuotation(p, Admin, id)
  \/ createBookingFind(p)
  \/ createBookingCreate(p)
  \/ \E id \in BookingIds, b \in I.status : updateBookingStatus(p, Admin, id, b)
  \/ \E id \in BookingIds, b \in I.paid : markAsPaid(p, Admin, id, b)
  \/ \E id \in BookingIds, b \in I.cancel : cancelBooking(p, Admin, id, b)
  \/ bookingSave(p)

LifeNext ==
  \/ Tick
  \/ \E p \in SeqProcs : LifeStep(p, LifeInputs)

LifeSpec == Init /\ [][LifeNext]_vars

----------------------------------------------------------------------------
(* Properties *)

Done(p, op) == calls[p].op = op /\ calls[p].pc = "done"

\* The step from the unprimed to the primed state is the arrival of a request op at p.
Arrives(p, op) == Free(p) /\ calls'[p] # calls[p] /\ calls'[p].op = op

Rejected(c) == c.pc = "done" /\ ~c.resp.success /\ c.resp.code \in {400, 403, 404}

BookingsOf(q) == {i \in DOMAIN bookings : bookings[i].quoteRequest = q}

\* C1: a submitQuotation call whose e-mail was attempted answers success in both
\* outcomes: emailSent=true when the send succeeded, and success with
\* emailSent=false and a warning when the send failed.
C1_SuccessInBothEmailOutcomes ==
  \A p \in Procs :
    Done(p, "submitQuotation") =>
      /\ calls[p].transport = "delivered" =>
           calls[p].resp.success /\ calls[p].resp.emailSent = "true"
      /\ calls[p].transport = "failed" =>
           calls[p].resp.success /\ calls[p].resp.emailSent = "false" /\ calls[p].resp.warning

\* C2: a finished submitQuotation call whose e-mail was attempted has appended
\* exactly two audit entries for its quote, price_updated and then email_sent,
\* whether the send succeeded or failed.
C2_TwoAuditEntriesPerCall ==
  \A p \in Procs :
    Done(p, "submitQuotation") /\ calls[p].transport # "none" =>
      /\ Len(history) = calls[p].h0 + 2
      /\ history[calls[p].h0 + 1].action = "price_updated"
      /\ history[calls[p].h0 + 1].quoteId = calls[p].id
      /\ history[calls[p].h0 + 2].action = "email_sent"
      /\ history[calls[p].h0 + 2].quoteId = calls[p].id

\* C3: after a submitQuotation call whose e-mail send succeeded or failed, the
\* stored quote is quoted at the submitted price: the failure of the transport
\* undoes nothing.
C3_PriceUpdateSurvivesEmailOutcome ==
  \A p \in Procs :
    Done(p, "submitQuotation") /\ calls[p].transport \in {"delivered", "failed"} =>
      /\ calls[p].id \in DOMAIN quotes
      /\ quotes[calls[p].id].status = "quoted"
      /\ quotes[calls[p].id].estimatedPrice = calls[p].body.estimatedPrice

C3_Witness ==
  /\ Done(1, "submitQuotation")
  /\ calls[1].transport = "failed"
  /\ quotes[calls[1].id].status = "quoted"
  /\ quotes[calls[1].id].estimatedPrice = Some(2)

\* C4: a submitQuotation request whose estimatedPrice is missing, zero or negative
\* is answered 400 in the step in which it arrives, and that step changes no quote,
\* booking or audit entry and sends no e-mail.
C4_InvalidPriceRejectedBeforeMutation ==
  [][\A p \in Procs :
       (/\ Arrives(p, "submitQuotation")
        /\ \/ calls'[p].body.estimatedPrice = None
           \/ calls'[p].body.estimatedPrice[1] <= 0)
       => /\ Rejected(calls'[p])
          /\ calls'[p].resp.code = 400
          /\ calls'[p].transport = "none"
          /\ Db' = Db]_vars

C4_Witness ==
  /\ Done(1, "submitQuotation")
  /\ calls[1].body = SubmitBody(Some(0), "b")
  /\ calls[1].resp.code = 400
  /\ calls[1].id \in DOMAIN quotes
  /\ quotes[calls[1].id].status = "pending"
  /\ quotes[calls[1].id].adminNotes = UNDEF
  /\ history = <<>>

\* C5: sendQuotationEmail never throws: a failed transport yields a result with
\* success=false, a successful one a result with success=true and the message id.
C5_SendNeverThrows ==
  \A p \in Procs :
    /\ calls[p].transport = "failed" =>
         ~calls[p].emailResult.threw /\ ~calls[p].emailResult.success
    /\ calls[p].transport = "delivered" =>
         calls[p].emailResult.success /\ calls[p].emailResult.messageId # UNDEF

\* C6: a createFromQuotation request for a quote that is pending, quoted or
\* rejected is answered 400 in the step in which it arrives, and no booking is
\* created.
C6_UnapprovedQuoteCreatesNoBooking ==
  [][\A p \in Procs :
       (/\ Arrives(p, "createBookingFromQuotation")
        /\ calls'[p].id \in DOMAIN quotes
        /\ quotes[calls'[p].id].status \in {"pending", "quoted", "rejected"})
       => /\ Rejected(calls'[p])
          /\ calls'[p].resp.code = 400
          /\ bookings' = bookings]_vars

C6_Witness ==
  /\ Done(1, "createBookingFromQuotation")
  /\ calls[1].resp.message = "not approved"
  /\ calls[1].id \in DOMAIN quotes
  /\ quotes[calls[1].id].status = "quoted"
  /\ BookingsOf(calls[1].id) = {}

\* C7: when requests are served one after the other, a createFromQuotation call on
\* a quote that a booking already references is refused with the duplicate error,
\* and exactly one booking references the quote afterwards.
C7_SecondCreateRefused ==
  [][\A p \in Procs :
       (/\ calls[p].op = "createBookingFromQuotation"
        /\ calls[p].pc = "findBooking"
        /\ calls'[p] # calls[p]
        /\ BookingsOf(calls[p].id) # {})
       => /\ Rejected(calls'[p])
          /\ calls'[p].resp.message = "already exists"
          /\ Cardinality({i \in DOMAIN bookings' : bookings'[i].quoteRequest = calls[p].id}) = 1]_vars

C7_Witness ==
  /\ Done(1, "createBookingFromQuotation")
  /\ calls[1].resp.message = "already exists"
  /\ Cardinality(BookingsOf(calls[1].id)) = 1
  /\ quotes[calls[1].id].status = "approved"

\* C8: at most one booking references any quote, also when two createFromQuotation
\* calls on the same quote interleave their existence check and their create.
C8_AtMostOneBookingPerQuote ==
  \A q \in QuoteIds : Cardinality(BookingsOf(q)) <= 1

\* C9: a cancel request for a booking that is already cancelled is answered with an
\* error in the step in which it arrives, and the booking, with the cancelledAt,
\* cancelledBy and cancellationReason of the first cancellation, is unchanged.
C9_RecancelRejected ==
  [][\A p \in Procs :
       (/\ Arrives(p, "cancelBooking")
        /\ calls'[p].id \in DOMAIN bookings
        /\ bookings[calls'[p].id].status = "cancelled")
       => /\ Rejected(calls'[p])
          /\ calls'[p].resp.code = 400
          /\ bookings' = bookings]_vars

C9_Witness ==
  /\ Done(1, "cancelBooking")
  /\ calls[1].resp.message = "already cancelled"
  /\ bookings[calls[1].id].status = "cancelled"
  /\ bookings[calls[1].id].cancelledBy = "admin"
  /\ bookings[calls[1].id].cancelledAt # None
  /\ bookings[calls[1].id].cancelledAt[1] < now

\* C10: a call that ends in a validation, not-found, forbidden or conflict error
\* (a 400, 403 or 404 answer, or the 500 answer of a save or create that schema
\* validation refuses) leaves the quotes, the bookings and the audit log unchanged:
\* the step that answers changes nothing, it is taken from a position of the
\* handler that no write precedes, and the steps that lead to those positions
\* change nothing either.  The 500 answer of a failed e-mail send is a delivery
\* failure and is not covered.
C10_RejectionLeavesStoresUnchanged ==
  [][\A p \in Procs :
       calls'[p] # calls[p] =>
         /\ (\/ Rejected(calls'[p])
             \/ (calls'[p].pc = "done" /\ calls'[p].resp.code = 500 /\ calls[p].pc # "email"))
            => /\ Db' = Db
               /\ calls[p].pc \in {"idle", "done", "findBooking", "save", "create"}
         /\ calls'[p].pc \in {"findBooking", "save", "create"} => Db' = Db]_vars

C10_Witness ==
  /\ Done(1, "getQuoteById")
  /\ calls[1].resp.code = 403
  /\ calls[1].actor.id = "u2"
  /\ quotes # <<>>
  /\ bookings # <<>>
  /\ history # <<>>

\* C11: the audit log is append-only: every step of every operation (updateQuote,
\* submitQuotation, deleteQuote and the booking operations included) leaves the
\* entries already appended in place and unchanged, so the earlier sequence is a
\* prefix of the later one.
C11_AuditLogAppendOnly ==
  [][/\ Len(history') >= Len(history)
     /\ SubSeq(history', 1, Len(history)) = history]_vars

C11_Witness ==
  /\ Len(history) = 2
  /\ history[1].quoteId = 1
  /\ quotes = <<>>
  /\ bookings # <<>>
  /\ Done(1, "cancelBooking")
  /\ calls[1].resp.success

TripAndPrices(b) ==
  [pickupLocation |-> b.pickupLocation, dropoffLocation |-> b.dropoffLocation,
   departureDate |-> b.departureDate, numberOfDays |-> b.numberOfDays,
   busType |-> b.busType, numberOfPassengers |-> b.numberOfPassengers,
   pricePerDay |-> b.pricePerDay, totalPrice |-> b.totalPrice]

TripOf(q) ==
  [pickupLocation |-> q.pickupLocation, dropoffLocation |-> q.dropoffLocation,
   departureDate |-> q.departureDate, numberOfDays |-> q.numberOfDays,
   busType |-> q.busType, numberOfPassengers |-> q.numberOfPassengers]

\* C12: the trip data and the prices of a stored booking are frozen: no step of
\* updateQuote, submitQuotation or deleteQuote on the originating quote (nor any
\* other step) changes the booking's pickup, dropoff, departureDate, numberOfDays,
\* busType, numberOfPassengers, pricePerDay or totalPrice.
C12_BookingIsFrozenCopy ==
  [][\A i \in DOMAIN bookings \cap DOMAIN bookings' :
       TripAndPrices(bookings'[i]) = TripAndPrices(bookings[i])]_vars

C12_Witness ==
  /\ Done(1, "submitQuotation")
  /\ calls[1].id \in DOMAIN quotes
  /\ 1 \in DOMAIN bookings
  /\ bookings[1].quoteRequest = calls[1].id
  /\ bookings[1].pricePerDay = Some(20000)
  /\ bookings[1].totalPrice = Some(60000)
  /\ quotes[calls[1].id].estimatedPrice = Some(15000)
  /\ quotes[calls[1].id].status = "quoted"

\* C13: the step of createFromQuotation that stores the booking of an approved
\* quote stores pricePerDay = estimatedPrice, totalPrice = estimatedPrice times
\* numberOfDays, status confirmed, paymentStatus pending, bookingType confirmed and
\* the trip fields of the quote as it is at that moment.
C13_BookingCopiesQuote ==
  [][\A p \in Procs :
       (/\ calls[p].op = "createBookingFromQuotation"
        /\ calls[p].pc = "create"
        /\ calls'[p].pc = "done"
        /\ calls'[p].resp.success)
       => /\ calls[p].id \in DOMAIN quotes
          /\ quotes[calls[p].id].status = "approved"
          /\ DOMAIN bookings' = DOMAIN bookings \cup {nextBookingId}
          /\ LET q == quotes[calls[p].id]
                 b == bookings'[nextBookingId]
             IN /\ b.quoteRequest = calls[p].id
                /\ b.pricePerDay = q.estimatedPrice
                /\ q.estimatedPrice # None
                /\ b.totalPrice = Some(q.estimatedPrice[1] * q.numberOfDays)
                /\ b.status = "confirmed"
                /\ b.paymentStatus = "pending"
                /\ b.bookingType = "confirmed"
                /\ TripOf(b) = TripOf(q)]_vars

C13_Witness ==
  /\ Done(1, "createBookingFromQuotation")
  /\ calls[1].resp.success
  /\ quotes[calls[1].id].status = "approved"
  /\ quotes[calls[1].id].estimatedPrice = Some(20000)
  /\ bookings[1].totalPrice = Some(60000)
  /\ bookings[1].numberOfPassengers = 45

\* C17: the end-to-end scenario: once the quote (3 days, 49-seater, 45 passengers,
\* future date) exists, a finished submitQuotation with price 15000 leaves it quoted
\* at 15000 with two audit entries appended by the call; and the booking created
\* from it once approved has totalPrice 45000, bookingType confirmed and
\* paymentStatus pending.
C17_EndToEndScenario ==
  \A p \in Procs :
    /\ (Done(p, "submitQuotation") /\ calls[p].id \in DOMAIN quotes) =>
         /\ quotes[calls[p].id].status = "quoted"
         /\ quotes[calls[p].id].estimatedPrice = Some(15000)
         /\ Len(history) = calls[p].h0 + 2
    /\ (/\ Done(p, "createBookingFromQuotation")
        /\ calls[p].resp.success
        /\ calls[p].id \in DOMAIN quotes
        /\ quotes[calls[p].id].estimatedPrice = Some(15000)) =>
         \A i \in BookingsOf(calls[p].id) :
           /\ bookings[i].totalPrice = Some(45000)
           /\ bookings[i].bookingType = "confirmed"
           /\ bookings[i].paymentStatus = "pending"

\* C14: a createQuote request with every field present is answered 400 and stores
\* nothing when numberOfPassengers exceeds the capacity of its bus type (49 for a
\* 49-seater, 60 for a 60-seater); with numberOfPassengers equal to that capacity
\* and a departure not before today it is answered 201 and the quote is stored.
C14_CapacityBoundary ==
  [][\A p \in Procs :
       (Arrives(p, "createQuote") /\ ~missingRequired(calls'[p].body)) =>
         LET body == calls'[p].body
             capacity == IF body.busType = "49-seater" THEN 49 ELSE 60
         IN /\ body.numberOfPassengers > capacity =>
                 /\ Rejected(calls'[p])
                 /\ calls'[p].resp.code = 400
                 /\ quotes' = quotes
            /\ (/\ body.numberOfPassengers = capacity
                /\ body.departureDate \div DayLen >= now \div DayLen) =>
                 /\ calls'[p].resp.code = 201
                 /\ DOMAIN quotes' = DOMAIN quotes \cup {calls'[p].id}
                 /\ calls'[p].id \notin DOMAIN quotes
                 /\ quotes'[calls'[p].id].numberOfPassengers = capacity
                 /\ quotes'[calls'[p].id].busType = body.busType]_vars

C14_Witness ==
  /\ Done(1, "createQuote")
  /\ calls[1].body.busType = "60-seater"
  /\ calls[1].body.numberOfPassengers = 61
  /\ calls[1].resp.code = 400
  /\ calls[1].resp.message = "capacity"
  /\ quotes = <<>>
  /\ nextQuoteId = 1

\* C15: a createQuote request with every field present and the passengers within
\* capacity is answered 400 and stores nothing when the departure lies on a calendar
\* day before today's, and is answered 201 when it lies on today's calendar day,
\* whatever the time of day of the departure and of the clock.
C15_DepartureDateOnly ==
  [][\A p \in Procs :
       (/\ Arrives(p, "createQuote")
        /\ ~missingRequired(calls'[p].body)
        /\ passengersValidator(calls'[p].body.busType, calls'[p].body.numberOfPassengers)) =>
         LET body == calls'[p].body
         IN /\ body.departureDate \div DayLen < now \div DayLen =>
                 /\ Rejected(calls'[p])
                 /\ calls'[p].resp.code = 400
                 /\ quotes' = quotes
            /\ body.departureDate \div DayLen = now \div DayLen =>
                 /\ calls'[p].resp.code = 201
                 /\ calls'[p].id \in DOMAIN quotes' \ DOMAIN quotes
                 /\ quotes'[calls'[p].id].departureDate = body.departureDate]_vars

C15_Witness ==
  /\ Done(1, "createQuote")
  /\ calls[1].resp.code = 201
  /\ calls[1].body.departureDate = 0
  /\ quotes[1].departureDate = 0
  /\ now = 1

\* C16: getQuoteById answers 404 and returns nothing when the id resolves to no
\* quote, returns the stored quote when the actor is its requester or an admin, and
\* answers 403 and returns nothing to every other actor; it changes nothing.
C16_QuoteReadAccess ==
  [][\A p \in Procs :
       Arrives(p, "getQuoteById") =>
         LET id == calls'[p].id
             actor == calls'[p].actor
         IN /\ Db' = Db
            /\ calls'[p].pc = "done"
            /\ IF id \notin DOMAIN quotes
               THEN calls'[p].resp.code = 404 /\ calls'[p].doc = NoDoc
               ELSE IF quotes[id].user = actor.id \/ actor.role = "admin"
               THEN calls'[p].resp.code = 200 /\ calls'[p].doc = quotes[id]
               ELSE calls'[p].resp.code = 403 /\ calls'[p].doc = NoDoc]_vars

C16_Witness ==
  /\ Done(1, "getQuoteById")
  /\ calls[1].resp.code = 403
  /\ calls[1].actor.id = "u1"
  /\ calls[1].id \in DOMAIN quotes
  /\ quotes[calls[1].id].user = "u2"

\* C18: markAsPaid on an existing booking takes as payment date the supplied value
\* or, when none is supplied, the current time, and its save stores
\* paymentStatus paid, bookingType paid, the supplied paymentMethod and
\* invoiceNumber and that payment date.
C18_MarkAsPaidEffect ==
  [][\A p \in Procs :
       /\ (Arrives(p, "markAsPaid") /\ calls'[p].id \in DOMAIN bookings) =>
            /\ calls'[p].pc = "save"
            /\ calls'[p].doc.paymentDate =
                 IF calls'[p].body.paymentDate # None THEN calls'[p].body.paymentDate ELSE Some(now)
       /\ (calls[p].op = "markAsPaid" /\ calls[p].pc = "save" /\ calls'[p] # calls[p]) =>
            /\ calls'[p].resp.success
            /\ calls[p].id \in DOMAIN bookings'
            /\ LET b == bookings'[calls[p].id]
               IN /\ b.paymentStatus = "paid"
                  /\ b.bookingType = "paid"
                  /\ b.paymentMethod = calls[p].body.paymentMethod
                  /\ b.invoiceNumber = calls[p].body.invoiceNumber
                  /\ b.paymentDate = calls[p].doc.paymentDate]_vars

C18_Witness ==
  /\ Done(1, "markAsPaid")
  /\ calls[1].resp.success
  /\ calls[1].body.paymentDate = Some(0)
  /\ now = MaxNow
  /\ bookings[calls[1].id].paymentStatus = "paid"
  /\ bookings[calls[1].id].bookingType = "paid"
  /\ bookings[calls[1].id].paymentDate = Some(0)
  /\ bookings[calls[1].id].paymentMethod = "cash"
  /\ bookings[calls[1].id].invoiceNumber = "INV-1"

\* C19: cancel on a booking that is not cancelled takes the current time as
\* cancelledAt, and its save stores status cancelled, the given reason, that time
\* and the id of the acting user.
C19_CancelEffect ==
  [][\A p \in Procs :
       /\ (/\ Arrives(p, "cancelBooking")
           /\ calls'[p].id \in DOMAIN bookings
           /\ bookings[calls'[p].id].status # "cancelled") =>
            /\ calls'[p].pc = "save"
            /\ calls'[p].doc.cancelledAt = Some(now)
       /\ (calls[p].op = "cancelBooking" /\ calls[p].pc = "save" /\ calls'[p] # calls[p]) =>
            /\ calls'[p].resp.success
            /\ calls[p].id \in DOMAIN bookings'
            /\ LET b == bookings'[calls[p].id]
               IN /\ b.status = "cancelled"
                  /\ b.cancellationReason = calls[p].body.reason
                  /\ b.cancelledAt = calls[p].doc.cancelledAt
                  /\ b.cancelledBy = calls[p].actor.id]_vars

C19_Witness ==
  /\ Done(1, "cancelBooking")
  /\ calls[1].resp.success
  /\ bookings[calls[1].id].status = "cancelled"
  /\ bookings[calls[1].id].cancellationReason = "r1"
  /\ bookings[calls[1].id].cancelledAt = Some(1)
  /\ bookings[calls[1].id].cancelledBy = "admin"
  /\ bookings[calls[1].id].paymentStatus = "paid"

\* C20: the save that stores a booking document without a returnDate stores
\* returnDate = departureDate plus numberOfDays days, and the save of a document
\* with a returnDate stores that returnDate; every later save of the booking
\* (updateBookingStatus, markAsPaid, cancelBooking) leaves its returnDate as it is.
C20_ReturnDateDefault ==
  [][/\ \A p \in Procs :
          (calls[p].op = "Booking.create" /\ calls[p].pc = "create" /\ calls'[p].resp.success) =>
            /\ nextBookingId \in DOMAIN bookings' \ DOMAIN bookings
            /\ bookings'[nextBookingId].returnDate =
                 IF calls[p].doc.returnDate = None
                 THEN Some(calls[p].doc.departureDate + calls[p].doc.numberOfDays * DayLen)
                 ELSE calls[p].doc.returnDate
     /\ \A i \in DOMAIN bookings \cap DOMAIN bookings' :
          /\ bookings[i].returnDate # None
          /\ bookings'[i].returnDate = bookings[i].returnDate]_vars

C20_Witness ==
  /\ Done(1, "cancelBooking")
  /\ calls[1].resp.success
  /\ bookings[1].status = "cancelled"
  /\ bookings[1].paymentStatus = "paid"
  /\ bookings[1].departureDate = 0
  /\ bookings[1].numberOfDays = 2
  /\ bookings[1].returnDate = Some(1)

\* C21: a getCalendarEvents call whose start or end is missing, or whose start is
\* later than its end, is answered with a validation error and returns no events.
C21_CalendarRangeValidated ==
  \A p \in Procs :
    (/\ Done(p, "getCalendarEvents")
     /\ \/ calls[p].body.start = None
        \/ calls[p].body.end = None
        \/ calls[p].body.start[1] > calls[p].body.end[1]) =>
      /\ Rejected(calls[p])
      /\ calls[p].doc = NoDoc

\* C22: a getCalendarEvents call with both bounds and start <= end returns one
\* event for each booking that departs within [start, end] and no other, in
\* ascending order of departureDate, each starting at the booking's departureDate
\* and ending at its returnDate when it has one and at its departureDate otherwise.
C22_CalendarEvents ==
  [][\A p \in Procs :
       (/\ Arrives(p, "getCalendarEvents")
        /\ calls'[p].body.start # None
        /\ calls'[p].body.end # None
        /\ calls'[p].body.start[1] <= calls'[p].body.end[1]) =>
         /\ calls'[p].resp.success
         /\ LET ev == calls'[p].doc.events
                lo == calls'[p].body.start[1]
                hi == calls'[p].body.end[1]
                inRange == {i \in DOMAIN bookings :
                              bookings[i].departureDate >= lo /\ bookings[i].departureDate <= hi}
            IN /\ {ev[j].id : j \in DOMAIN ev} = inRange
               /\ Len(ev) = Cardinality(inRange)
               /\ \A j \in DOMAIN ev :
                    /\ ev[j].start = bookings[ev[j].id].departureDate
                    /\ ev[j].end = IF bookings[ev[j].id].returnDate # None
                                   THEN bookings[ev[j].id].returnDate[1]
                                   ELSE bookings[ev[j].id].departureDate
               /\ \A j, k \in DOMAIN ev : j < k => ev[j].start <= ev[k].start]_vars

C22_Witness ==
  /\ Done(1, "getCalendarEvents")
  /\ calls[1].body = [start |-> Some(1), end |-> Some(MaxNow)]
  /\ DOMAIN bookings = {1, 2}
  /\ bookings[1].departureDate = 2
  /\ bookings[2].departureDate = 1
  /\ Len(calls[1].doc.events) = 2
  /\ calls[1].doc.events[1].id = 2
  /\ calls[1].doc.events[2].id = 1
  /\ calls[1].doc.events[1].end = 2

\* C23: a pending quote carries no estimatedPrice, whatever sequence of createQuote,
\* updateQuote and submitQuotation led to it.
C23_NoPriceWhilePending ==
  \A id \in DOMAIN quotes :
    quotes[id].status = "pending" => quotes[id].estimatedPrice = None

\* C24: every stored quote and every stored booking has numberOfPassengers at most
\* 49 when its busType is 49-seater and at most 60 when it is 60-seater.
C24_PassengersWithinCapacity ==
  /\ \A id \in DOMAIN quotes :
       quotes[id].numberOfPassengers <= (IF quotes[id].busType = "49-seater" THEN 49 ELSE 60)
  /\ \A i \in DOMAIN bookings :
       bookings[i].numberOfPassengers <= (IF bookings[i].busType = "49-seater" THEN 49 ELSE 60)

C24_Witness ==
  /\ 1 \in DOMAIN quotes
  /\ 1 \in DOMAIN bookings
  /\ quotes[1].busType = "49-seater"
  /\ quotes[1].numberOfPassengers = 49
  /\ bookings[1].quoteRequest = 1
  /\ bookings[1].busType = "49-seater"
  /\ bookings[1].numberOfPassengers = 49

EntriesOf(q) == {k \in DOMAIN history : history[k].quoteId = q}

\* C25: when submitQuotation calls on the same quote interleave, every save of a
\* call leaves the persisted quote at that call's price, so that the quote ends
\* with the price of the call that saved last; and when two calls on the quote have
\* both finished with their e-mail delivered, four audit entries are recorded for
\* the quote, a price_updated and an email_sent entry of each call.
C25_LastWriteWins ==
  /\ [][\A p \in Procs :
          (/\ calls[p].op = "submitQuotation"
           /\ calls[p].pc = "save"
           /\ calls'[p].pc = "audit1") =>
            quotes'[calls[p].id].estimatedPrice = calls[p].body.estimatedPrice]_vars
  /\ [](\A p, q \in Procs :
          (/\ p # q
           /\ Done(p, "submitQuotation") /\ calls[p].transport = "delivered"
           /\ Done(q, "submitQuotation") /\ calls[q].transport = "delivered"
           /\ calls[p].id = calls[q].id) =>
            /\ Cardinality(EntriesOf(calls[p].id)) = 4
            /\ \E k \in EntriesOf(calls[p].id) :
                 /\ history[k].action = "price_updated"
                 /\ history[k].newState.estimatedPrice = calls[p].body.estimatedPrice
            /\ Cardinality({k \in EntriesOf(calls[p].id) : history[k].action = "email_sent"}) = 2)

\* C25 (amended): when submitQuotation calls on the same quote interleave, the save
\* of a call whose price differs from the price it read leaves the persisted quote
\* at that call's price, whatever the other call saved in between, and the save of
\* a call that submits the price it read leaves the persisted price as it is; and
\* when two calls on the quote have both finished with their e-mail delivered, four
\* audit entries are recorded for the quote, a price_updated and an email_sent
\* entry of each call.
C25_ModifiedPriceLastWriteWins ==
  /\ [][\A p \in Procs :
          (/\ calls[p].op = "submitQuotation"
           /\ calls[p].pc = "save"
           /\ calls'[p].pc = "audit1") =>
            quotes'[calls[p].id].estimatedPrice =
              IF calls[p].body.estimatedPrice # calls[p].orig.estimatedPrice
              THEN calls[p].body.estimatedPrice
              ELSE quotes[calls[p].id].estimatedPrice]_vars
  /\ [](\A p, q \in Procs :
          (/\ p # q
           /\ Done(p, "submitQuotation") /\ calls[p].transport = "delivered"
           /\ Done(q, "submitQuotation") /\ calls[q].transport = "delivered"
           /\ calls[p].id = calls[q].id) =>
            /\ Cardinality(EntriesOf(calls[p].id)) = 4
            /\ \E k \in EntriesOf(calls[p].id) :
                 /\ history[k].action = "price_updated"
                 /\ history[k].userId = calls[p].actor.id
                 /\ history[k].newState.estimatedPrice = calls[p].body.estimatedPrice
            /\ Cardinality({k \in EntriesOf(calls[p].id) : history[k].action = "email_sent"}) = 2)

C25_Witness ==
  /\ Done(1, "submitQuotation") /\ calls[1].transport = "delivered"
  /\ Done(2, "submitQuotation") /\ calls[2].transport = "delivered"
  /\ calls[1].h0 = 0 /\ calls[2].h0 = 0
  /\ calls[1].body.estimatedPrice = Some(1)
  /\ calls[2].body.estimatedPrice = Some(2)
  /\ Len(history) = 4
  /\ history[1].action = "price_updated"
  /\ history[1].newState.estimatedPrice = Some(1)
  /\ history[1].previousState.estimatedPrice = None
  /\ history[2].action = "price_updated"
  /\ history[2].newState.estimatedPrice = Some(2)
  /\ history[2].previousState.estimatedPrice = None
  /\ quotes[1].estimatedPrice = Some(1)

\* C26: a submitQuotation call attempts the e-mail at most once (after the attempt
\* its outcome is never replaced within the call), and a call whose send failed has
\* recorded the failure in an email_sent audit entry of status failed and answers
\* with the failure surfaced: success with emailSent=false and a warning.
C26_OneSendFailureRecorded ==
  /\ [][\A p \in Procs :
          (calls[p].op = "submitQuotation" /\ calls[p].transport # "none" /\ ~Free(p)) =>
            calls'[p].transport = calls[p].transport]_vars
  /\ [](\A p \in Procs :
          (Done(p, "submitQuotation") /\ calls[p].transport = "failed") =>
            /\ Len(history) = calls[p].h0 + 2
            /\ history[calls[p].h0 + 2].action = "email_sent"
            /\ history[calls[p].h0 + 2].emailStatus = "failed"
            /\ calls[p].resp.emailSent = "false"
            /\ calls[p].resp.warning)

\* C27: every submitQuotation call that has been taken up is eventually answered,
\* also when the mail server never answers: the send is ended by a timeout of the
\* transport.
C27_SubmitAlwaysAnswered ==
  \A p \in Procs :
    (calls[p].op = "submitQuotation" /\ ~Free(p)) ~>
      (Done(p, "submitQuotation") /\ calls[p].resp.code \in {200, 500})

C27_Witness ==
  /\ Done(1, "submitQuotation")
  /\ calls[1].transport = "timeout"
  /\ calls[1].resp.code = 500
  /\ calls[1].id \in DOMAIN quotes
  /\ quotes[calls[1].id].status = "quoted"

\* The quote of call c is stored as quoted at the price of the call.
PersistedBy(c) ==
  /\ c.id \in DOMAIN quotes
  /\ quotes[c.id].status = "quoted"
  /\ quotes[c.id].estimatedPrice = c.body.estimatedPrice

C29_PriceUpdatedSnapshots ==
  [][\A p \in Procs :
       (/\ calls[p].op = "submitQuotation"
        /\ calls[p].pc = "audit1"
        /\ calls'[p].pc = "email") =>
          /\ Len(history') = Len(history) + 1
          /\ LET e == history'[Len(history')]
             IN /\ e.action = "price_updated"
                /\ e.quoteId = calls[p].id
                /\ e.userId = calls[p].actor.id
                /\ e.previousState = stateOf(calls[p].orig)
                /\ calls[p].id \in DOMAIN quotes
                /\ e.newState = stateOf(quotes[calls[p].id])
                /\ e.newState.status = "quoted"
                /\ e.newState.estimatedPrice = calls[p].body.estimatedPrice]_vars

C29_Witness ==
  /\ Len(history) >= 1
  /\ history[1].action = "price_updated"
  /\ history[1].userId = Admin.id
  /\ history[1].previousState.status = "approved"
  /\ history[1].previousState.estimatedPrice = Some(20000)
  /\ history[1].newState.status = "quoted"
  /\ history[1].newState.estimatedPrice = Some(15000)

\* C30: the save of a submitQuotation call leaves the stored adminNotes equal to
\* the notes of the request when the request carries (non-empty) notes, and equal
\* to the notes the quote had before when it carries none.
C30_NotesSetOrKept ==
  [][\A p \in Procs :
       (/\ calls[p].op = "submitQuotation"
        /\ calls[p].pc = "save"
        /\ calls'[p].pc = "audit1") =>
          quotes'[calls[p].id].adminNotes =
            IF calls[p].body.adminNotes \notin {UNDEF, ""}
            THEN calls[p].body.adminNotes
            ELSE quotes[calls[p].id].adminNotes]_vars

C30_Witness ==
  /\ Done(1, "submitQuotation")
  /\ calls[1].body.adminNotes = UNDEF
  /\ calls[1].h0 >= 1
  /\ history[1].action = "price_updated"
  /\ history[1].previousState.adminNotes = "a"
  /\ history[1].newState.adminNotes = "b"
  /\ calls[1].id \in DOMAIN quotes
  /\ quotes[calls[1].id].adminNotes = "b"
  /\ history[calls[1].h0 + 1].action = "price_updated"

\* C31: a booking whose status is cancelled keeps that status in every later
\* step: no updateBookingStatus, markAsPaid or cancelBooking call moves it to
\* confirmed, in-progress or completed.
C31_CancelledStaysCancelled ==
  [][\A i \in DOMAIN bookings :
       (bookings[i].status = "cancelled" /\ i \in DOMAIN bookings') =>
         bookings'[i].status = "cancelled"]_vars

\* C32: a booking has status cancelled exactly when its cancelledAt and
\* cancelledBy are set.
C32_CancelledIffRecorded ==
  \A i \in DOMAIN bookings :
    bookings[i].status = "cancelled" <=>
      (bookings[i].cancelledAt # None /\ bookings[i].cancelledBy # UNDEF)

\* C33: every booking references a quote that is in the store.
C33_BookingQuoteExists ==
  \A i \in DOMAIN bookings : bookings[i].quoteRequest \in DOMAIN quotes

\* C34: a quote that is in the store and is referenced by a booking has status
\* approved.
C34_BookedQuoteStaysApproved ==
  \A i \in DOMAIN bookings :
    bookings[i].quoteRequest \in DOMAIN quotes =>
      quotes[bookings[i].quoteRequest].status = "approved"

\* C35: for every booking created by createBookingFromQuotation, bookingType is
\* paid exactly when paymentStatus is paid, bookingType is never quotation, and a
\* booking whose paymentStatus is paid keeps it in every later step.
C35_PaidTypeAndStatusAgree ==
  /\ [](\A i \in DOMAIN bookings :
          /\ bookings[i].bookingType = "paid" <=> bookings[i].paymentStatus = "paid"
          /\ bookings[i].bookingType # "quotation")
  /\ [][\A i \in DOMAIN bookings :
          (bookings[i].paymentStatus = "paid" /\ i \in DOMAIN bookings') =>
            bookings'[i].paymentStatus = "paid"]_vars

C35_Witness ==
  /\ 1 \in DOMAIN bookings
  /\ bookings[1].paymentStatus = "paid"
  /\ bookings[1].bookingType = "paid"
  /\ bookings[1].status = "completed"
  /\ bookings[1].cancelledAt # None

PaymentFields == {"paymentStatus", "bookingType", "paymentDate", "paymentMethod", "invoiceNumber"}

CancellationFields == {"status", "cancellationReason", "cancelledAt", "cancelledBy"}

\* C36: the save of a markAsPaid call is accepted whatever the status of the
\* booking and changes no field of the booking other than paymentStatus,
\* bookingType, paymentDate, paymentMethod and invoiceNumber; the save of a
\* cancelBooking call changes no field other than status, cancellationReason,
\* cancelledAt and cancelledBy.
C36_PaymentAndCancellationFrames ==
  [][\A p \in Procs :
       (calls[p].pc = "save" /\ calls'[p].pc = "done") =>
         /\ calls[p].op = "markAsPaid" =>
              /\ calls'[p].resp.code = 200
              /\ bookings'[calls[p].id].paymentStatus = "paid"
              /\ \A f \in (DOMAIN bookings[calls[p].id]) \ PaymentFields :
                   bookings'[calls[p].id][f] = bookings[calls[p].id][f]
         /\ calls[p].op = "cancelBooking" =>
              /\ calls'[p].resp.code = 200
              /\ bookings'[calls[p].id].status = "cancelled"
              /\ \A f \in (DOMAIN bookings[calls[p].id]) \ CancellationFields :
                   bookings'[calls[p].id][f] = bookings[calls[p].id][f]]_vars

C36_Witness ==
  /\ Done(1, "markAsPaid")
  /\ calls[1].resp.code = 200
  /\ calls[1].orig = NoDoc
  /\ calls[1].id \in DOMAIN bookings
  /\ bookings[calls[1].id].status = "cancelled"
  /\ bookings[calls[1].id].cancelledBy = Admin.id
  /\ bookings[calls[1].id].paymentStatus = "paid"
  /\ bookings[calls[1].id].invoiceNumber = "INV-1"

PriceEntriesOf(q) == {k \in EntriesOf(q) : history[k].action = "price_updated"}

\* C37: for every stored quote with at least one price_updated entry and no
\* request in flight, the newState of its most recent price_updated entry equals
\* the quote's current {status, estimatedPrice, adminNotes}.
C37_AuditLogFollowsQuote ==
  \A q \in DOMAIN quotes :
    (PriceEntriesOf(q) # {} /\ \A p \in Procs : Free(p)) =>
      LET last == CHOOSE k \in PriceEntriesOf(q) : \A j \in PriceEntriesOf(q) : j <= k
      IN history[last].newState = stateOf(quotes[q])

\* C38: of two cancelBooking calls on the same booking, also when their status
\* checks and saves interleave, at most one is answered with success, and the
\* cancellationReason and cancelledBy of the booking are those of a call that
\* was answered with success.
C38_AtMostOneCancelSucceeds ==
  /\ \A p, q \in Procs :
       (/\ p # q
        /\ Done(p, "cancelBooking") /\ Done(q, "cancelBooking")
        /\ calls[p].id = calls[q].id) =>
          ~(calls[p].resp.code = 200 /\ calls[q].resp.code = 200)
  /\ \A p \in Procs :
       (/\ Done(p, "cancelBooking")
        /\ calls[p].resp.code = 200
        /\ calls[p].id \in DOMAIN bookings) =>
          /\ bookings[calls[p].id].cancellationReason = calls[p].body.reason
          /\ bookings[calls[p].id].cancelledBy = calls[p].actor.id

\* C39: a finished createBookingFromQuotation call either was refused because
\* the quote is missing, is not approved or already has a booking, or has
\* succeeded and stored a booking whose pricePerDay and totalPrice are defined
\* and not negative.
C39_CreateFailsOnlyAsStated ==
  \A p \in Procs :
    Done(p, "createBookingFromQuotation") =>
      \/ calls[p].resp.code = 404 /\ calls[p].resp.message = "not found"
      \/ calls[p].resp.code = 400 /\ calls[p].resp.message \in {"not approved", "already exists"}
      \/ /\ calls[p].resp.code = 201
         /\ calls[p].doc.pricePerDay # None /\ calls[p].doc.pricePerDay[1] >= 0
         /\ calls[p].doc.totalPrice # None /\ calls[p].doc.totalPrice[1] >= 0
====
